---- MODULE Spec2Model ----
(***************************************************************************)
(* Model of realtime_spectrogram.py: the capture thread (AudioProcessor),  *)
(* the main-window controller (MainWindow) with its Qt event loop, timers  *)
(* and modal dialogs, the latest-frame hand-off and the rolling history.   *)
(*                                                                         *)
(* Abstractions of data, not of control:                                   *)
(*  - a spectrum of n bins is the record [n, db, id]: n is its length, db  *)
(*    the level every bin holds, id the serial number of the newData       *)
(*    emission that carried it (0 for none);                               *)
(*  - a history matrix is [rows, cols]: rows is shape[0] and cols the      *)
(*    sequence of its columns left to right, each column the level its     *)
(*    bins hold;                                                           *)
(*  - dB values are whole numbers.                                         *)
(***************************************************************************)
EXTENDS Integers, Sequences, FiniteSets, TLC

VARIABLES
    mw,        \* the MainWindow object: its attributes
    workers,   \* the AudioProcessor objects ever constructed, by serial number
    mainq,     \* signals queued to the main thread, oldest first
    timers,    \* plot_timer and the pending QTimer.singleShot calls
    modal,     \* the stack of open modal dialogs (nested event loops), innermost first
    stats,     \* bookkeeping: what the bounds count, and what has happened
    startup    \* the program's start: the sound system it finds, selected_device

vars == <<mw, workers, mainq, timers, modal, stats, startup>>

---------------------------------------------------------------------------
\* Program constants

DEFAULT_SAMPLE_RATE == 44100
DEFAULT_CHUNK_SIZE == 2048
DEFAULT_N_FFT == DEFAULT_CHUNK_SIZE
DEFAULT_FREQ_SCALE == "Logarithmic"
DEFAULT_COLORMAP == "viridis"
DEFAULT_VERBOSE_CONSOLE == FALSE
DEFAULT_SUPPRESS_WARNINGS == TRUE
DEFAULT_SPEC_DB_MIN == -70
DEFAULT_SPEC_DB_MAX == 10
DEFAULT_RESP_HEADROOM == 10
HISTORY_SECONDS == 10
SUPPORTED_SAMPLE_RATES == {8000, 11025, 16000, 22050, 32000, 44100, 48000, 88200, 96000}
SUPPORTED_FFT_SIZES == {512, 1024, 2048, 4096, 8192, 16384}
SUPPORTED_COLORMAPS == {"cividis", "inferno", "magma", "plasma", "turbo", "viridis"}

---------------------------------------------------------------------------
\* Bounds of the model

MaxSpawn == 2      \* AudioProcessor objects constructed
MaxPublish == 2    \* newData emissions
MaxAppend == 2     \* plot_timer timeouts that find a spectrum to draw
MaxConfigs == 1    \* configuration dialogs opened
MaxBackoff == 2    \* underruns in a row
MaxReconfigs == 2  \* configuration dialogs opened, where requests overlap
MaxMicrophones == 2  \* devices that sc.all_microphones returns

\* The inputs the model draws: the device's channel count, the levels of a
\* captured block (left, right), and the values the dialog's widgets are
\* toggled between.
DeviceChannels == {1, 2}
Blocks == {[L |-> -80, R |-> 20], [L |-> -20, R |-> -20]}
AltSampleRate(v) == IF v = 44100 THEN 8000 ELSE 44100
AltFftSize(v) == IF v = 2048 THEN 4096 ELSE 2048
AltFreqScale(v) == IF v = "Logarithmic" THEN "Linear" ELSE "Logarithmic"
AltColormap(v) == IF v = "viridis" THEN "magma" ELSE "viridis"
AltDbMin(v) == IF v = -70 THEN -40 ELSE -70
AltDbMax(v) == IF v = 10 THEN 0 ELSE 10
DbMinSpinMaximum == 0     \* specMinDbSpin.setRange(-120.0, 0.0)
DbMaxSpinMinimum == -30   \* specMaxDbSpin.setRange(-30.0, 60.0)
AltHeadroom(v) == IF v = 10 THEN 20 ELSE 10
Edits == {"none", "sample_rate", "fft_size", "colormap", "spec_db_min", "spec_db_max",
          "verbose", "fft_size+colormap"}
CoreEdits == {"none", "fft_size", "colormap", "verbose", "fft_size+colormap"}
ReconfigEdits == {"none", "fft_size", "colormap"}
RangeEdits == {"spec_db_min", "spec_db_max", "db_inverted"}

---------------------------------------------------------------------------
\* numpy / scipy helpers

Min(a, b) == IF a < b THEN a ELSE b
Max(a, b) == IF a > b THEN a ELSE b

\* int(np.ceil(a / b)), as a variant that rounds down
FloorDiv(a, b) == a \div b

\* int(np.ceil(a / b)) for positive whole a, b
CeilDiv(a, b) == (a + b - 1) \div b

\* np.clip as a variant without the upper limit
np_clip_lower(v, lo, hi) == Max(v, lo)

\* np.clip(v, lo, hi) = minimum(maximum(v, lo), hi)
np_clip(v, lo, hi) == Min(Max(v, lo), hi)

\* np.full((rows, ncols), fill)
np_full(rows, ncols, fill) == [rows |-> rows, cols |-> [j \in 1..ncols |-> fill]]

\* np.roll(m, -1, axis=1): every column one place to the left, column 0 to the end
np_roll(m) == [m EXCEPT !.cols = IF m.cols = <<>> THEN <<>> ELSE Tail(m.cols) \o <<Head(m.cols)>>]

\* m[:, -1] = v
SetLastColumn(m, v) == [m EXCEPT !.cols[Len(m.cols)] = v]

\* np.fft.rfftfreq as a variant without the frequency sample_rate / 2
rfftfreq_open(n_fft, sample_rate) ==
    [len |-> n_fft \div 2, n_fft |-> n_fft, sample_rate |-> sample_rate]

\* np.fft.rfftfreq(n_fft, 1.0 / sample_rate): n_fft // 2 + 1 frequencies k * sample_rate / n_fft
rfftfreq(n_fft, sample_rate) ==
    [len |-> n_fft \div 2 + 1, n_fft |-> n_fft, sample_rate |-> sample_rate]

\* get_window(WINDOW_TYPE, chunk_size): chunk_size coefficients
get_window(chunk_size) == [len |-> chunk_size]

\* None, for an attribute that holds a spectrum
None == [n |-> 0, db |-> 0, id |-> 0]

---------------------------------------------------------------------------
\* The world the main thread's handlers read and write. A handler is an
\* operator from world to world, so that a handler that calls another is
\* the composition the code performs.

World == [mw |-> mw, workers |-> workers, timers |-> timers, stats |-> stats]

Commit(W) ==
    /\ mw' = W.mw
    /\ workers' = W.workers
    /\ timers' = W.timers
    /\ stats' = W.stats

\* The program is inside app.exec() (483): the event loop and the capture
\* threads take steps until the main window has closed, which ends the
\* program (484)
InExec == startup.pc \in {"exec", "closing"} /\ UNCHANGED startup

WorkerIds == 1..MaxSpawn

\* AudioProcessor objects constructed so far
Spawned(ws) == Cardinality({w \in DOMAIN ws : ws[w].pc # "unborn"})

\* A worker that has been constructed and has not emitted finished
Live(wk) == wk.pc \notin {"unborn", "done"}

\* A worker inside "while self._is_running" (lines 127-136)
InLoop(wk) == wk.pc \in {"while", "record", "emit"}

---------------------------------------------------------------------------
\* AudioProcessor

Unborn ==
    [pc |-> "unborn", _is_running |-> FALSE, sample_rate |-> 0, chunk_size |-> 0,
     n_fft |-> 0, window |-> get_window(0), num_channels |-> 0, recorder |-> FALSE,
     processed_data |-> [db_L |-> None, db_R |-> None], emitted |-> <<>>, backoffs |-> 0]

\* AudioProcessor.__init__, then audio_thread.start(): the object exists and
\* its run() has not begun
AudioProcessor(num_channels, sample_rate, chunk_size, n_fft, window) ==
    [Unborn EXCEPT !.pc = "spawned", !.sample_rate = sample_rate,
                   !.chunk_size = chunk_size, !.n_fft = n_fft, !.window = window,
                   !.num_channels = num_channels]

\* A signal queued to the main thread
Signal(sig, w, data) == [sig |-> sig, w |-> w, db_L |-> data.db_L, db_R |-> data.db_R]
NoData == [db_L |-> None, db_R |-> None]

\* Lines 131-135, as a variant whose transform leaves out the last bin
TransformShort(wk, block) ==
    LET audio_L == block.L
        audio_R == IF wk.num_channels >= 2 THEN block.R ELSE block.L
        bins == wk.n_fft \div 2
    IN [db_L |-> [n |-> bins, db |-> audio_L, id |-> 0],
        db_R |-> [n |-> bins, db |-> audio_R, id |-> 0]]

\* Lines 131-135, as a variant that transforms with the transform size in
\* force in the main window
TransformLive(wk, block) ==
    LET audio_L == block.L
        audio_R == IF wk.num_channels >= 2 THEN block.R ELSE block.L
        bins == mw.n_fft \div 2 + 1
    IN [db_L |-> [n |-> bins, db |-> audio_L, id |-> 0],
        db_R |-> [n |-> bins, db |-> audio_R, id |-> 0]]

\* Lines 131-135: the channels of the block, windowed, rfft(n=n_fft), dB.
\* np.fft.rfft(x, n) has n // 2 + 1 bins.
Transform(wk, block) ==
    LET audio_L == block.L
        audio_R == IF wk.num_channels >= 2 THEN block.R ELSE block.L
        bins == wk.n_fft \div 2 + 1
    IN [db_L |-> [n |-> bins, db |-> audio_L, id |-> 0],
        db_R |-> [n |-> bins, db |-> audio_R, id |-> 0]]

\* Lines 120-126: run() begins: the flag is raised, the stream is opened
Run(w) ==
    /\ workers[w].pc = "spawned"
    /\ \E opened \in BOOLEAN :
         workers' = [workers EXCEPT ![w]._is_running = TRUE,
                                    ![w].recorder = opened,
                                    ![w].pc = IF opened THEN "while" ELSE "except"]
    /\ UNCHANGED <<mw, mainq, timers, modal, stats>>
    /\ InExec

\* Line 127, as a variant that leaves the stream open when the loop ends
WhileKeepsStream(w) ==
    /\ workers[w].pc = "while"
    /\ workers' = IF workers[w]._is_running
                  THEN [workers EXCEPT ![w].pc = "record"]
                  ELSE [workers EXCEPT ![w].pc = "finally", ![w].backoffs = 0]
    /\ UNCHANGED <<mw, mainq, timers, modal, stats>>
    /\ InExec

\* Line 127: the loop condition; leaving the loop leaves the with block,
\* which closes the stream
While(w) ==
    /\ workers[w].pc = "while"
    /\ workers' = IF workers[w]._is_running
                  THEN [workers EXCEPT ![w].pc = "record"]
                  ELSE [workers EXCEPT ![w].pc = "finally", ![w].recorder = FALSE,
                                       ![w].backoffs = 0]
    /\ UNCHANGED <<mw, mainq, timers, modal, stats>>
    /\ InExec

\* What recorder.record(numframes=chunk_size) gives: None, fewer frames than
\* asked, chunk_size frames, or an exception
Reads == {"None", "short", "full", "raise"}

\* Line 130, as a variant that takes only a missing block for an underrun
UnderrunNoneOnly(read) == read = "None"

\* Line 130: data is None or data.shape[0] < self.chunk_size
Underrun(read) == read \in {"None", "short"}

\* Lines 128-135: the blocking read returns; the flag is read again (129);
\* an underrun sleeps and retries (130); a full block is transformed.
\* backoffs counts the time.sleep(0.005) calls made in a row, since the last
\* full block; it is back at 0 when the worker leaves the loop.
Record(w, reads) ==
    /\ workers[w].pc = "record"
    /\ \E read \in reads, block \in Blocks :
         LET wk == workers[w] IN
         /\ read = "full" /\ wk._is_running => stats.published < MaxPublish
         /\ Underrun(read) /\ wk._is_running => wk.backoffs < MaxBackoff
         /\ workers' =
              IF read = "raise"
              THEN [workers EXCEPT ![w].pc = "except", ![w].recorder = FALSE,
                                   ![w].backoffs = 0]
              ELSE IF ~wk._is_running
              THEN [workers EXCEPT ![w].pc = "finally", ![w].recorder = FALSE,
                                   ![w].backoffs = 0]
              ELSE IF Underrun(read)
              THEN [workers EXCEPT ![w].pc = "while", ![w].backoffs = @ + 1]
              ELSE [workers EXCEPT ![w].pc = "emit", ![w].backoffs = 0,
                                   ![w].processed_data = Transform(wk, block)]
    /\ UNCHANGED <<mw, mainq, timers, modal, stats>>
    /\ InExec

\* Line 136, as a variant that emits without reading the flag
EmitUnchecked(w) ==
    /\ workers[w].pc = "emit"
    /\ LET wk == workers[w]
           data == [db_L |-> [wk.processed_data.db_L EXCEPT !.id = stats.published + 1],
                    db_R |-> [wk.processed_data.db_R EXCEPT !.id = stats.published + 1]]
       IN /\ mainq' = Append(mainq, Signal("newData", w, data))
          /\ stats' = [stats EXCEPT !.published = @ + 1]
    /\ workers' = [workers EXCEPT ![w].pc = "while"]
    /\ UNCHANGED <<mw, timers, modal>>
    /\ InExec

\* Line 136: if self._is_running: self.newData.emit(processed_data)
Emit(w) ==
    /\ workers[w].pc = "emit"
    /\ LET wk == workers[w]
           data == [db_L |-> [wk.processed_data.db_L EXCEPT !.id = stats.published + 1],
                    db_R |-> [wk.processed_data.db_R EXCEPT !.id = stats.published + 1]]
       IN IF wk._is_running
          THEN /\ mainq' = Append(mainq, Signal("newData", w, data))
               /\ stats' = [stats EXCEPT !.published = @ + 1]
          ELSE UNCHANGED <<mainq, stats>>
    /\ workers' = [workers EXCEPT ![w].pc = "while"]
    /\ UNCHANGED <<mw, timers, modal>>
    /\ InExec

\* Lines 137-139: an exception of the open or of the read
Except(w) ==
    /\ workers[w].pc = "except"
    /\ IF workers[w]._is_running
       THEN /\ mainq' = Append(mainq, Signal("errorOccurred", w, NoData))
            /\ workers' = [workers EXCEPT ![w].pc = "finally",
                                          ![w].emitted = Append(@, "errorOccurred")]
       ELSE /\ workers' = [workers EXCEPT ![w].pc = "finally"]
            /\ UNCHANGED mainq
    /\ UNCHANGED <<mw, timers, modal, stats>>
    /\ InExec

\* Line 140, as a variant that lowers the flag and emits nothing
FinallySilent(w) ==
    /\ workers[w].pc = "finally"
    /\ workers' = [workers EXCEPT ![w]._is_running = FALSE, ![w].pc = "done"]
    /\ UNCHANGED <<mw, mainq, timers, modal, stats>>
    /\ InExec

\* Line 140: finally: self._is_running = False; self.finished.emit()
Finally(w) ==
    /\ workers[w].pc = "finally"
    /\ workers' = [workers EXCEPT ![w]._is_running = FALSE, ![w].pc = "done",
                                  ![w].emitted = Append(@, "finished")]
    /\ mainq' = Append(mainq, Signal("finished", w, NoData))
    /\ UNCHANGED <<mw, timers, modal, stats>>
    /\ InExec

\* Line 141: stop(), called from the main thread
stop(wk) == [wk EXCEPT !._is_running = FALSE]

---------------------------------------------------------------------------
\* MainWindow: the handlers, as operators on the world

\* Lines 257-269. The ValueError of line 261 needs a rate or a chunk size
\* that is not positive, which no supported value is. configure_plots
\* (272-303) draws and writes no attribute.
recalculate_vars_and_configure_plots(W) ==
    LET m == W.mw
        freq_vector == rfftfreq(m.n_fft, m.current_sample_rate)
        history_frames_actual ==
            Max(1, CeilDiv(HISTORY_SECONDS * m.current_sample_rate, m.current_chunk_size))
    IN [W EXCEPT
          !.mw.freq_vector = freq_vector,
          !.mw.history_frames_actual = history_frames_actual,
          !.mw.time_vector = [len |-> history_frames_actual],
          !.mw.spec_history_L = np_full(freq_vector.len, history_frames_actual, m.current_spec_db_min),
          !.mw.spec_history_R = np_full(freq_vector.len, history_frames_actual, m.current_spec_db_min),
          !.mw.window = get_window(m.current_chunk_size)]

\* Lines 306-328, as a variant without the early return of line 307
start_audio_unguarded(W) ==
    LET m == W.mw
        id == Spawned(W.workers) + 1
        window == get_window(m.current_chunk_size)
    IN [W EXCEPT
          !.mw.window = window,
          !.mw.latest_db_L = None,
          !.mw.latest_db_R = None,
          !.mw.audio_processor = id,
          !.workers[id] = AudioProcessor(m.num_channels, m.current_sample_rate,
                                         m.current_chunk_size, m.n_fft, window),
          !.timers.plot_connections = @ + 1,
          !.timers.plot_active = TRUE,
          !.mw.is_audio_running = TRUE]

\* Lines 306-328. self.device is set: find_loopback_device exits the
\* program when it finds none.
start_audio(W) ==
    IF W.mw.is_audio_running THEN W
    ELSE LET m == W.mw
             id == Spawned(W.workers) + 1
             window == get_window(m.current_chunk_size)
         IN [W EXCEPT
               !.mw.window = window,
               !.mw.latest_db_L = None,
               !.mw.latest_db_R = None,
               !.mw.audio_processor = id,
               !.workers[id] = AudioProcessor(m.num_channels, m.current_sample_rate,
                                              m.current_chunk_size, m.n_fft, window),
               !.timers.plot_connections = @ + 1,
               !.timers.plot_active = TRUE,
               !.mw.is_audio_running = TRUE]

\* Lines 330-339. audio_thread.quit() ends the thread's event loop once
\* run() has returned; it writes nothing the model holds.
stop_audio(W) ==
    LET W1 == [W EXCEPT !.timers.plot_active = FALSE]
    IN IF ~W1.mw.is_audio_running \/ W1.mw.audio_processor = 0
       THEN [W1 EXCEPT !.mw.is_audio_running = FALSE]
       ELSE [W1 EXCEPT !.workers[W1.mw.audio_processor] = stop(@)]

\* Lines 341-349, as a variant that leaves is_audio_running as it is
handle_audio_finished_flag_kept(W) ==
    [W EXCEPT !.timers.plot_active = FALSE,
              !.mw.audio_processor = 0]

\* Lines 341-349
handle_audio_finished(W) ==
    [W EXCEPT !.timers.plot_active = FALSE,
              !.mw.audio_processor = 0,
              !.mw.is_audio_running = FALSE]

\* Lines 359-363
handle_new_data(W, processed_data) ==
    [W EXCEPT !.mw.latest_db_L = processed_data.db_L,
              !.mw.latest_db_R = processed_data.db_R]

\* Lines 367-394. Writing a spectrum of another length than the matrix has
\* rows raises ValueError at the first assignment of line 382, after both
\* matrices were rolled; line 394 catches it.
update_plots(W) ==
    LET m == W.mw IN
    IF m.latest_db_L = None \/ m.latest_db_R = None THEN W
    ELSE IF m.display_mode = "Spectrogram"
    THEN LET db_L_clipped == np_clip(m.latest_db_L.db, m.current_spec_db_min, m.current_spec_db_max)
             db_R_clipped == np_clip(m.latest_db_R.db, m.current_spec_db_min, m.current_spec_db_max)
             rolled_L == np_roll(m.spec_history_L)
             rolled_R == np_roll(m.spec_history_R)
         IN IF Len(m.spec_history_L.cols) # m.history_frames_actual
            THEN recalculate_vars_and_configure_plots(W)
            ELSE IF m.latest_db_L.n # rolled_L.rows
            THEN [W EXCEPT !.mw.spec_history_L = rolled_L,
                           !.mw.spec_history_R = rolled_R]
            ELSE [W EXCEPT !.mw.spec_history_L = SetLastColumn(rolled_L, db_L_clipped),
                           !.mw.spec_history_R = SetLastColumn(rolled_R, db_R_clipped),
                           !.stats.appended = @ + 1]
    ELSE W

\* The dialog's fields (lines 403-405, 165-169)
Settings(m) ==
    [sample_rate |-> m.current_sample_rate, fft_size |-> m.current_fft_size,
     freq_scale |-> m.current_freq_scale, colormap |-> m.current_colormap,
     spec_db_min |-> m.current_spec_db_min, spec_db_max |-> m.current_spec_db_max,
     resp_headroom |-> m.current_resp_headroom, verbose |-> m.verbose_console,
     suppress_warnings |-> m.suppress_warnings]

\* Lines 425-450. Line 438 computes effective_recalc_needed anew, after the
\* assignments of 429-437, so it compares the new values with themselves.
\* update_warning_filter (437) sets the warnings filter, which the model
\* does not hold.
finish_apply_settings(W, new_settings, was_running, restart_needed, recalc_needed) ==
    LET m == W.mw
        m1 == [m EXCEPT
                 !.current_sample_rate = new_settings.sample_rate,
                 !.current_fft_size = new_settings.fft_size,
                 !.n_fft = IF m.current_fft_size # new_settings.fft_size
                           THEN new_settings.fft_size ELSE @,
                 !.current_chunk_size = IF m.current_fft_size # new_settings.fft_size
                                        THEN new_settings.fft_size ELSE @,
                 !.current_freq_scale = new_settings.freq_scale,
                 !.current_colormap = new_settings.colormap,
                 !.current_spec_db_min = new_settings.spec_db_min,
                 !.current_spec_db_max = new_settings.spec_db_max,
                 !.current_resp_headroom = new_settings.resp_headroom,
                 !.verbose_console = new_settings.verbose,
                 !.suppress_warnings = new_settings.suppress_warnings]
        effective_recalc_needed ==
            \/ m1.current_sample_rate # new_settings.sample_rate
            \/ m1.current_fft_size # new_settings.fft_size
            \/ m1.current_freq_scale # new_settings.freq_scale
            \/ m1.current_colormap # new_settings.colormap
            \/ m1.current_spec_db_min # new_settings.spec_db_min
            \/ m1.current_spec_db_max # new_settings.spec_db_max
            \/ m1.current_resp_headroom # new_settings.resp_headroom
        W1 == [W EXCEPT !.mw = m1]
        W2 == IF recalc_needed \/ effective_recalc_needed
              THEN recalculate_vars_and_configure_plots(W1) ELSE W1
    IN IF restart_needed /\ was_running
       THEN [W2 EXCEPT !.timers.start = @ + 1]
       ELSE W2

\* The arguments of a finish_apply_settings call that a timer holds
ApplyCall(new_settings, was_running, restart_needed, recalc_needed) ==
    [new_settings |-> new_settings, was_running |-> was_running,
     restart_needed |-> restart_needed, recalc_needed |-> recalc_needed]

\* Lines 421-424, as a variant that stops and defers whenever a restart is
\* needed, capture running or not
apply_settings_deferred(W, new_settings, restart_needed, recalc_needed) ==
    LET was_running == W.mw.is_audio_running
    IN IF restart_needed
       THEN LET W1 == stop_audio(W)
            IN [W1 EXCEPT !.timers.apply =
                    Append(@, ApplyCall(new_settings, was_running, TRUE, recalc_needed))]
       ELSE finish_apply_settings(W, new_settings, was_running, restart_needed, recalc_needed)

\* Lines 421-424. stats.applied_running records that settings were applied
\* at once while capture was flagged running.
apply_settings(W, new_settings, restart_needed, recalc_needed) ==
    LET was_running == W.mw.is_audio_running
    IN IF restart_needed /\ W.mw.is_audio_running
       THEN LET W1 == stop_audio(W)
            IN [W1 EXCEPT !.timers.apply =
                    Append(@, ApplyCall(new_settings, was_running, TRUE, recalc_needed))]
       ELSE LET W1 == [W EXCEPT !.stats.applied_running = @ \/ was_running]
            IN finish_apply_settings(W1, new_settings, was_running, restart_needed, recalc_needed)

---------------------------------------------------------------------------
\* find_loopback_device (lines 66-113)

\* A device: its place in the enumeration (0 for the default speaker), its
\* channel count, whether it is flagged or named as a loopback, and what the
\* first and the second trial capture on it give: frames, no frames, an
\* AttributeError, or another exception
Device(id, channels, isloopback, trials) ==
    [id |-> id, channels |-> channels, isloopback |-> isloopback, trials |-> trials]

\* sc.default_speaker() raised
NoDevice == Device(-1, 0, FALSE, <<>>)

\* Devices that behave the same at every trial, and devices that fail their
\* first trial and pass their second. "raise" is an exception that is not an
\* AttributeError, "attr" an AttributeError.
Trials == {<<"frames", "frames">>, <<"empty", "empty">>, <<"raise", "raise">>,
           <<"raise", "frames">>, <<"attr", "attr">>, <<"attr", "frames">>}

RECURSIVE Enumerations(_)
Enumerations(n) ==
    IF n = 0 THEN {<<>>}
    ELSE LET shorter == Enumerations(n - 1)
         IN shorter \cup
            {Append(mics, Device(Len(mics) + 1, channels, isloopback, trials)) :
               mics \in {e \in shorter : Len(e) = n - 1},
               channels \in DeviceChannels, isloopback \in BOOLEAN, trials \in Trials}

\* platform: whether the installed soundcard module has an attribute named
\* platform, which the handler of an AttributeError reads (82); without it
\* the handler raises and test_device returns nothing
SoundSystems ==
    [default_speaker : {NoDevice} \cup
                       {Device(0, channels, FALSE, trials) :
                          channels \in DeviceChannels, trials \in Trials},
     microphones : Enumerations(MaxMicrophones),
     platform : BOOLEAN]

\* A sound system whose default speaker cannot be recorded from and whose
\* only loopback device works
LoopbackOnly(channels) ==
    [default_speaker |-> Device(0, 2, FALSE, <<"raise", "raise">>),
     microphones |-> <<Device(1, channels, TRUE, <<"frames", "frames">>)>>,
     platform |-> FALSE]

\* Lines 68-87, as a variant that asks only for a block, not for frames in it
test_device_any_block(device, call, platform) ==
    LET outcome == device.trials[call]
    IN CASE outcome \in {"frames", "empty"} -> "True"
         [] outcome = "raise" -> "False"
         [] outcome = "attr" -> IF platform THEN "False" ELSE "AttributeError"

\* Lines 68-87: test_device, at the call-th trial of the device: True only
\* when the trial capture returned frames, False when it returned none or
\* raised. The handler of an AttributeError reads sc.platform (82): in a
\* build whose soundcard module has no such attribute that read raises
\* AttributeError in the handler, and test_device raises it to its caller.
test_device(device, call, platform) ==
    LET outcome == device.trials[call]
    IN CASE outcome = "frames" -> "True"
         [] outcome = "empty" -> "False"
         [] outcome = "raise" -> "False"
         [] outcome = "attr" -> IF platform THEN "False" ELSE "AttributeError"

\* What find_loopback_device leaves: selected_device, found, and whether
\* show_qt_warning was called
Found(selected_device, found, warned) ==
    [selected_device |-> selected_device, found |-> found, warned |-> warned]

NotFound == Found(NoDevice, FALSE, FALSE)

\* Lines 101-110: the loop over the candidates. tested_devices stays empty
\* (the add of line 102 follows the continue), so no candidate is skipped.
\* A device of two channels whose trial failed is tried again by the elif.
\* An exception that test_device raises ends the loop in the except clause
\* of line 110, with nothing found.
RECURSIVE TestCandidates(_, _)
TestCandidates(candidates, platform) ==
    IF candidates = <<>> THEN NotFound
    ELSE LET lb == Head(candidates)
             stereo == IF lb.channels >= 2 THEN test_device(lb, 1, platform) ELSE "False"
             mono == IF lb.channels >= 1
                     THEN test_device(lb, IF lb.channels >= 2 THEN 2 ELSE 1, platform)
                     ELSE "False"
         IN IF stereo = "True" THEN Found(lb, TRUE, FALSE)
            ELSE IF stereo = "AttributeError" THEN NotFound
            ELSE IF mono = "True" THEN Found(lb, TRUE, TRUE)
            ELSE IF mono = "AttributeError" THEN NotFound
            ELSE TestCandidates(Tail(candidates), platform)

\* Line 96: the microphones flagged as loopback or named like one
Candidates(mics) == SelectSeq(mics, LAMBDA m : m.isloopback)

\* Lines 88-112. An exception of sc.default_speaker() or one that
\* test_device raises for the default speaker is caught at line 92.
find_loopback_device(sound) ==
    LET default_speaker == sound.default_speaker
    IN IF /\ default_speaker # NoDevice
          /\ default_speaker.channels >= 2
          /\ test_device(default_speaker, 1, sound.platform) = "True"
       THEN Found(default_speaker, TRUE, FALSE)
       ELSE TestCandidates(Candidates(sound.microphones), sound.platform)

---------------------------------------------------------------------------
\* The state after MainWindow.__init__ (lines 185-206)

InitWindow(channels) ==
    LET m0 == [current_sample_rate |-> DEFAULT_SAMPLE_RATE,
               current_fft_size |-> DEFAULT_N_FFT,
               current_chunk_size |-> DEFAULT_CHUNK_SIZE,
               current_freq_scale |-> DEFAULT_FREQ_SCALE,
               current_colormap |-> DEFAULT_COLORMAP,
               verbose_console |-> DEFAULT_VERBOSE_CONSOLE,
               suppress_warnings |-> DEFAULT_SUPPRESS_WARNINGS,
               current_spec_db_min |-> DEFAULT_SPEC_DB_MIN,
               current_spec_db_max |-> DEFAULT_SPEC_DB_MAX,
               current_resp_headroom |-> DEFAULT_RESP_HEADROOM,
               n_fft |-> DEFAULT_N_FFT,
               num_channels |-> channels,
               freq_vector |-> rfftfreq(0, 0),
               time_vector |-> [len |-> 0],
               spec_history_L |-> np_full(0, 0, 0),
               spec_history_R |-> np_full(0, 0, 0),
               window |-> get_window(0),
               history_frames_actual |-> 0,
               display_mode |-> "Spectrogram",
               latest_db_L |-> None,
               latest_db_R |-> None,
               audio_processor |-> 0,
               is_audio_running |-> FALSE]
        W0 == [mw |-> m0,
               workers |-> [w \in WorkerIds |-> Unborn],
               timers |-> [plot_active |-> FALSE, plot_connections |-> 0,
                           apply |-> <<>>, start |-> 0, stop |-> 0],
               stats |-> [published |-> 0, appended |-> 0, configs |-> 0,
                          applied_running |-> FALSE, resubmitted |-> FALSE]]
    IN recalculate_vars_and_configure_plots(W0)

\* The state when the event loop starts (483): the device was found, the
\* window constructed on it, and start_audio was called (477), so capture is
\* flagged running on a first worker whose thread has not begun run()
Init ==
    /\ \E channels \in DeviceChannels :
         LET sound == LoopbackOnly(channels)
             found == find_loopback_device(sound)
             W == start_audio(InitWindow(found.selected_device.channels))
         IN /\ startup = [pc |-> "exec", sound |-> sound, found |-> found]
            /\ mw = W.mw
            /\ workers = W.workers
            /\ timers = W.timers
            /\ stats = W.stats
    /\ mainq = <<>>
    /\ modal = <<>>

\* The state when the program starts (line 461), on any of the sound systems;
\* main_window is None (29)
NoWindow == [main_window |-> "None"]

StartupInit ==
    /\ \E sound \in SoundSystems :
         startup = [pc |-> "find", sound |-> sound, found |-> NotFound]
    /\ mw = NoWindow
    /\ workers = [w \in WorkerIds |-> Unborn]
    /\ timers = [plot_active |-> FALSE, plot_connections |-> 0,
                 apply |-> <<>>, start |-> 0, stop |-> 0]
    /\ stats = [published |-> 0, appended |-> 0, configs |-> 0,
                applied_running |-> FALSE, resubmitted |-> FALSE]
    /\ mainq = <<>>
    /\ modal = <<>>

\* Line 465: device = find_loopback_device(). Without a device show_qt_error
\* shows the guidance and ends the program (111, 47).
FindLoopbackDevice ==
    /\ startup.pc = "find"
    /\ LET found == find_loopback_device(startup.sound)
       IN startup' = [startup EXCEPT !.found = found,
                                     !.pc = IF found.found THEN "found" ELSE "exit"]
    /\ UNCHANGED <<mw, workers, mainq, timers, modal, stats>>

\* Line 471: main_window = MainWindow(device)
CreateMainWindow ==
    /\ startup.pc = "found"
    /\ startup' = [startup EXCEPT !.pc = "window"]
    /\ Commit(InitWindow(startup.found.selected_device.channels))
    /\ UNCHANGED <<mainq, modal>>

\* Line 477: main_window.start_audio(), then app.exec() (483)
AutoStart ==
    /\ startup.pc = "window"
    /\ startup' = [startup EXCEPT !.pc = "exec"]
    /\ Commit(start_audio(World))
    /\ UNCHANGED <<mainq, modal>>

---------------------------------------------------------------------------
\* Modal dialogs. exec() runs a nested event loop: queued signals and timers
\* go on being handled, the user reaches only the innermost dialog, and an
\* outer exec() returns only after the inner one has.

NoSettings ==
    [sample_rate |-> 0, fft_size |-> 0, freq_scale |-> "", colormap |-> "",
     spec_db_min |-> 0, spec_db_max |-> 0, resp_headroom |-> 0, verbose |-> FALSE,
     suppress_warnings |-> FALSE]

Dialog(kind, current_settings, new_settings, restart_required, recalc_needed) ==
    [kind |-> kind, current_settings |-> current_settings, new_settings |-> new_settings,
     restart_required |-> restart_required, recalc_needed |-> recalc_needed]

\* The values of the dialog's widgets (get_settings, 163-169) after the
\* user's edit of the values the dialog was opened with (148-159)
get_settings(current_settings, edit) ==
    LET c == current_settings IN
    CASE edit = "none" -> c
      [] edit = "sample_rate" -> [c EXCEPT !.sample_rate = AltSampleRate(@)]
      [] edit = "fft_size" -> [c EXCEPT !.fft_size = AltFftSize(@)]
      [] edit = "freq_scale" -> [c EXCEPT !.freq_scale = AltFreqScale(@)]
      [] edit = "colormap" -> [c EXCEPT !.colormap = AltColormap(@)]
      [] edit = "spec_db_min" -> [c EXCEPT !.spec_db_min = AltDbMin(@)]
      [] edit = "spec_db_max" -> [c EXCEPT !.spec_db_max = AltDbMax(@)]
      [] edit = "resp_headroom" -> [c EXCEPT !.resp_headroom = AltHeadroom(@)]
      [] edit = "verbose" -> [c EXCEPT !.verbose = ~@]
      [] edit = "suppress_warnings" -> [c EXCEPT !.suppress_warnings = ~@]
      [] edit = "fft_size+colormap" -> [c EXCEPT !.fft_size = AltFftSize(@),
                                                 !.colormap = AltColormap(@)]
      [] edit = "db_inverted" -> [c EXCEPT !.spec_db_min = DbMinSpinMaximum,
                                           !.spec_db_max = DbMaxSpinMinimum]

\* Line 409, as a variant that takes any changed field for one that needs
\* a restart
restart_required_any(m, new_settings) == new_settings # Settings(m)

\* Line 409, as a variant that asks for a restart whatever was changed
restart_required_always(m, new_settings) == TRUE

\* Line 409
restart_required(m, new_settings) ==
    \/ new_settings.sample_rate # m.current_sample_rate
    \/ new_settings.fft_size # m.current_fft_size

\* Lines 410-412
recalc_needed(m, new_settings) ==
    \/ restart_required(m, new_settings)
    \/ new_settings.freq_scale # m.current_freq_scale
    \/ new_settings.colormap # m.current_colormap
    \/ new_settings.spec_db_min # m.current_spec_db_min
    \/ new_settings.spec_db_max # m.current_spec_db_max
    \/ new_settings.resp_headroom # m.current_resp_headroom

\* Line 413
config_changed(current_settings, new_settings) == current_settings # new_settings

---------------------------------------------------------------------------
\* The main thread: one action per handler run by the event loop

\* startButton.clicked. The button is enabled while capture is not flagged
\* running (398).
StartClick ==
    /\ modal = <<>>
    /\ ~mw.is_audio_running
    /\ Spawned(workers) < MaxSpawn
    /\ Commit(start_audio(World))
    /\ UNCHANGED <<mainq, modal>>
    /\ InExec

\* stopButton.clicked; the button is enabled while capture is flagged running
StopClick ==
    /\ modal = <<>>
    /\ mw.is_audio_running
    /\ Commit(stop_audio(World))
    /\ UNCHANGED <<mainq, modal>>
    /\ InExec

\* Lines 453-455: closeEvent calls stop_audio; while capture stays flagged
\* running it goes into processEvents for up to 1.5 s, where queued signals,
\* timers and input are handled, and otherwise it accepts the close at once.
\* The user closes the window; while a dialog is open the window is blocked
\* (the dialogs are modal: exec(), 57, 407, 417) and gets no close event.
CloseEvent ==
    /\ startup.pc = "exec"
    /\ modal = <<>>
    /\ LET W == stop_audio(World)
       IN /\ Commit(W)
          /\ startup' = [startup EXCEPT !.pc = IF W.mw.is_audio_running THEN "closing"
                                                ELSE "closed"]
    /\ UNCHANGED <<mainq, modal>>

\* Lines 455-457: the wait of closeEvent ends, because capture is no longer
\* flagged running or because 1.5 s have passed, and the close is accepted:
\* the window closes and app.exec() returns. A dialog opened by a handler
\* that ran inside processEvents has its exec() above closeEvent on the
\* stack and has to be closed first.
CloseAccept ==
    /\ startup.pc = "closing"
    /\ modal = <<>>
    /\ startup' = [startup EXCEPT !.pc = "closed"]
    /\ UNCHANGED <<mw, workers, mainq, timers, modal, stats>>

\* Lines 240-250: the other display-mode radio button is checked
ToggleDisplay ==
    /\ modal = <<>>
    /\ mw' = [mw EXCEPT !.display_mode = IF @ = "Spectrogram" THEN "FrequencyResponse"
                                         ELSE "Spectrogram"]
    /\ UNCHANGED <<workers, mainq, timers, modal, stats>>
    /\ InExec

\* Lines 401-407: configButton.clicked, up to dialog.exec(), for a user who
\* opens the dialog at most max times
OpenConfigDialog(max) ==
    /\ modal = <<>>
    /\ stats.configs < max
    /\ modal' = <<Dialog("config", Settings(mw), NoSettings, FALSE, FALSE)>>
    /\ stats' = [stats EXCEPT !.configs = @ + 1]
    /\ UNCHANGED <<mw, workers, mainq, timers>>
    /\ InExec

ConfigClick == OpenConfigDialog(MaxConfigs)

\* Line 420: the dialog is cancelled
DialogCancel ==
    /\ modal # <<>> /\ Head(modal).kind = "config"
    /\ modal' = Tail(modal)
    /\ UNCHANGED <<mw, workers, mainq, timers, stats>>
    /\ InExec

\* Lines 407-419: the dialog is accepted with the values new_settings.
\* stats.resubmitted records that the values accepted were those in force.
DialogAcceptWith(new_settings) ==
    /\ modal # <<>> /\ Head(modal).kind = "config"
    /\ LET current_settings == Head(modal).current_settings
           restart == restart_required(mw, new_settings)
           recalc == recalc_needed(mw, new_settings)
           W == [World EXCEPT !.stats.resubmitted = @ \/ new_settings = Settings(mw)]
       IN IF ~config_changed(current_settings, new_settings)
          THEN /\ modal' = Tail(modal)
               /\ Commit(W)
          ELSE IF restart
          THEN /\ modal' = <<Dialog("question", current_settings, new_settings, restart, recalc)>>
                              \o Tail(modal)
               /\ Commit(W)
          ELSE /\ modal' = Tail(modal)
               /\ Commit(apply_settings(W, new_settings, restart, recalc))
    /\ UNCHANGED mainq
    /\ InExec

\* The dialog is accepted with the values of edit
DialogAccept(edit) ==
    /\ modal # <<>>
    /\ DialogAcceptWith(get_settings(Head(modal).current_settings, edit))

\* The dialog is accepted with a sample rate and a transform size picked in
\* the two combo boxes (149-150)
DialogAcceptSizes(sample_rate, fft_size) ==
    /\ modal # <<>>
    /\ DialogAcceptWith([Head(modal).current_settings EXCEPT !.sample_rate = sample_rate,
                                                             !.fft_size = fft_size])

\* Lines 417-419: the "Restart Audio?" question is answered Ok
QuestionOk ==
    /\ modal # <<>> /\ Head(modal).kind = "question"
    /\ modal' = Tail(modal)
    /\ Commit(apply_settings(World, Head(modal).new_settings,
                             Head(modal).restart_required, Head(modal).recalc_needed))
    /\ UNCHANGED mainq
    /\ InExec

\* Line 418, as a variant that keeps the colormap of a declined request
QuestionCancelKeepsColormap ==
    /\ modal # <<>> /\ Head(modal).kind = "question"
    /\ modal' = Tail(modal)
    /\ mw' = [mw EXCEPT !.current_colormap = Head(modal).new_settings.colormap]
    /\ UNCHANGED <<workers, mainq, timers, stats>>
    /\ InExec

\* Line 418: the question is answered Cancel
QuestionCancel ==
    /\ modal # <<>> /\ Head(modal).kind = "question"
    /\ modal' = Tail(modal)
    /\ UNCHANGED <<mw, workers, mainq, timers, stats>>
    /\ InExec

\* newData reaches its slot
HandleNewData ==
    /\ mainq # <<>> /\ Head(mainq).sig = "newData"
    /\ mainq' = Tail(mainq)
    /\ Commit(handle_new_data(World, Head(mainq)))
    /\ UNCHANGED modal
    /\ InExec

\* finished reaches its slot
HandleFinished ==
    /\ mainq # <<>> /\ Head(mainq).sig = "finished"
    /\ mainq' = Tail(mainq)
    /\ Commit(handle_audio_finished(World))
    /\ UNCHANGED modal
    /\ InExec

\* Lines 352-354: errorOccurred reaches its slot, which shows the warning.
\* show_qt_warning runs msg_box.exec() when details is not empty (57), and
\* traceback.format_exc() is never empty.
HandleError ==
    /\ mainq # <<>> /\ Head(mainq).sig = "errorOccurred"
    /\ mainq' = Tail(mainq)
    /\ modal' = <<Dialog("warning", NoSettings, NoSettings, FALSE, FALSE)>> \o modal
    /\ UNCHANGED <<mw, workers, timers, stats>>
    /\ InExec

\* Lines 355-356: the warning is closed and handle_audio_error goes on
WarningClose ==
    /\ modal # <<>> /\ Head(modal).kind = "warning"
    /\ modal' = Tail(modal)
    /\ IF mw.is_audio_running
       THEN /\ timers' = [timers EXCEPT !.stop = @ + 1]
            /\ UNCHANGED mw
       ELSE /\ mw' = [mw EXCEPT !.is_audio_running = FALSE]
            /\ UNCHANGED timers
    /\ UNCHANGED <<workers, mainq, stats>>
    /\ InExec

\* f applied n times
RECURSIVE Times(_, _, _)
Times(f(_), n, W) == IF n = 0 THEN W ELSE Times(f, n - 1, f(W))

\* plot_timer.timeout: update_plots runs once for every connection that
\* start_audio has made (325)
Tick ==
    /\ timers.plot_active
    /\ stats.appended < MaxAppend
    /\ Commit(Times(update_plots, timers.plot_connections, World))
    /\ UNCHANGED <<mainq, modal>>
    /\ InExec

\* The timer of line 423 fires
ApplyTimer ==
    /\ timers.apply # <<>>
    /\ LET call == Head(timers.apply)
           W == [World EXCEPT !.timers.apply = Tail(@)]
       IN Commit(finish_apply_settings(W, call.new_settings, call.was_running,
                                       call.restart_needed, call.recalc_needed))
    /\ UNCHANGED <<mainq, modal>>
    /\ InExec

\* The timer of line 445 fires
StartTimer ==
    /\ timers.start > 0
    /\ mw.is_audio_running \/ Spawned(workers) < MaxSpawn
    /\ Commit(start_audio([World EXCEPT !.timers.start = @ - 1]))
    /\ UNCHANGED <<mainq, modal>>
    /\ InExec

\* The timer of line 355 fires
StopTimer ==
    /\ timers.stop > 0
    /\ Commit(stop_audio([World EXCEPT !.timers.stop = @ - 1]))
    /\ UNCHANGED <<mainq, modal>>
    /\ InExec

---------------------------------------------------------------------------
\* Specifications

\* The user at the main window's buttons and at the warning
CaptureUser ==
    \/ StartClick
    \/ StopClick
    \/ ToggleDisplay
    \/ WarningClose

\* The user at the configuration dialog, with the edits of E
ConfigUser(E) ==
    \/ ConfigClick
    \/ DialogCancel
    \/ \E edit \in E : DialogAccept(edit)
    \/ QuestionOk
    \/ QuestionCancel

\* Queued signals reach their slots, oldest first
Deliver ==
    \/ HandleNewData
    \/ HandleFinished
    \/ HandleError

\* The capture thread of worker w
Thread(w) ==
    \/ Run(w)
    \/ While(w)
    \/ Record(w, Reads)
    \/ Emit(w)
    \/ Except(w)
    \/ Finally(w)

\* Every interleaving of the user, the event loop and the capture threads
\* while the window stays open
Next ==
    \/ CaptureUser
    \/ ConfigUser(Edits)
    \/ Deliver
    \/ Tick
    \/ ApplyTimer
    \/ StartTimer
    \/ StopTimer
    \/ \E w \in WorkerIds : Thread(w)

Spec == Init /\ [][Next]_vars

\* Capture without configuration requests, until the window is closed and
\* the program ends
CaptureNext ==
    \/ CaptureUser
    \/ CloseEvent
    \/ CloseAccept
    \/ Deliver
    \/ Tick
    \/ StopTimer
    \/ \E w \in WorkerIds : Thread(w)

CaptureSpec == Init /\ [][CaptureNext]_vars

\* The capture thread of worker w on a device that delivers every block in
\* full, or fails
SteadyThread(w) ==
    \/ Run(w)
    \/ While(w)
    \/ Record(w, Reads \ {"None", "short"})
    \/ Emit(w)
    \/ Except(w)
    \/ Finally(w)

\* Capture and display on such a device
PlotNext ==
    \/ CaptureUser
    \/ Deliver
    \/ Tick
    \/ StopTimer
    \/ \E w \in WorkerIds : SteadyThread(w)

PlotSpec == Init /\ [][PlotNext]_vars

\* The workers and the handlers of their signals, without the plot timer
\* and the display mode, which write nothing that a worker or a handler of
\* its signals reads
WorkerNext ==
    \/ StartClick
    \/ StopClick
    \/ WarningClose
    \/ Deliver
    \/ StopTimer
    \/ \E w \in WorkerIds : Thread(w)

WorkerSpec == Init /\ [][WorkerNext]_vars

\* The same on a device that delivers every block in full, or fails
ErrorNext ==
    \/ StartClick
    \/ StopClick
    \/ WarningClose
    \/ Deliver
    \/ StopTimer
    \/ \E w \in WorkerIds : SteadyThread(w)

\* The event loop delivers every queued signal and fires every timer that is
\* due; a capture thread that can take a step takes it (a blocking read
\* returns). Nothing obliges the user to act.
Fairness ==
    /\ WF_vars(Deliver)
    /\ WF_vars(StopTimer)
    /\ \A w \in WorkerIds : WF_vars(SteadyThread(w))

FairErrorSpec == Init /\ [][ErrorNext]_vars /\ Fairness

\* Configuration requests against a capture whose device delivers no full
\* block (a loopback device while nothing plays): the lifecycle of the
\* workers without the spectra
SilentThread(w) ==
    \/ Run(w)
    \/ While(w)
    \/ Record(w, Reads \ {"full"})
    \/ Except(w)
    \/ Finally(w)

LifecycleNext ==
    \/ CaptureUser
    \/ ConfigUser(CoreEdits)
    \/ HandleFinished
    \/ HandleError
    \/ Tick
    \/ ApplyTimer
    \/ StartTimer
    \/ StopTimer
    \/ \E w \in WorkerIds : SilentThread(w)

LifecycleSpec == Init /\ [][LifecycleNext]_vars

\* Capture runs from the start of the program (477) and the user only submits
\* configuration requests: what follows a request happens without any further
\* user action
RestartUser ==
    \/ ConfigUser(CoreEdits)
    \/ WarningClose

RestartNext ==
    \/ RestartUser
    \/ Deliver
    \/ Tick
    \/ ApplyTimer
    \/ StartTimer
    \/ StopTimer
    \/ \E w \in WorkerIds : Thread(w)

RestartSpec == Init /\ [][RestartNext]_vars

\* Capture runs from the start of the program (477) and the user submits up
\* to MaxReconfigs requests, one after another or while an earlier one is
\* still being carried out, on a device that delivers no full block
ReconfigUser ==
    \/ OpenConfigDialog(MaxReconfigs)
    \/ DialogCancel
    \/ \E edit \in ReconfigEdits : DialogAccept(edit)
    \/ QuestionOk
    \/ QuestionCancel
    \/ WarningClose

ReconfigNext ==
    \/ ReconfigUser
    \/ HandleFinished
    \/ HandleError
    \/ ApplyTimer
    \/ StartTimer
    \/ StopTimer
    \/ \E w \in WorkerIds : SilentThread(w)

ReconfigSpec == Init /\ [][ReconfigNext]_vars

\* Capture runs from the start of the program (477) and the user changes the
\* dB range of the display
RangeUser ==
    \/ ConfigClick
    \/ DialogCancel
    \/ \E edit \in RangeEdits : DialogAccept(edit)
    \/ WarningClose

RangeNext ==
    \/ RangeUser
    \/ Deliver
    \/ Tick
    \/ StopTimer
    \/ \E w \in WorkerIds : SteadyThread(w)

RangeSpec == Init /\ [][RangeNext]_vars

\* The start of the program on any sound system, up to the event loop
StartupNext ==
    \/ FindLoopbackDevice
    \/ CreateMainWindow
    \/ AutoStart

StartupSpec == StartupInit /\ [][StartupNext]_vars

\* The user stops the capture that the program began (477) and, once it is
\* flagged stopped, picks any supported sample rate and transform size, one
\* request after another
ReshapeNext ==
    \/ StopClick
    \/ (OpenConfigDialog(MaxReconfigs) /\ ~mw.is_audio_running)
    \/ DialogCancel
    \/ \E sample_rate \in SUPPORTED_SAMPLE_RATES, fft_size \in SUPPORTED_FFT_SIZES :
         DialogAcceptSizes(sample_rate, fft_size)
    \/ QuestionOk
    \/ QuestionCancel
    \/ WarningClose
    \/ HandleFinished
    \/ HandleError
    \/ StopTimer
    \/ \E w \in WorkerIds : SilentThread(w)

ReshapeSpec == Init /\ [][ReshapeNext]_vars

\* The user stops the capture that the program began (477), picks any
\* supported transform size once it is flagged stopped, and starts capture
\* once more, on a device that delivers every block in full, or fails
FrameUser ==
    \/ (StopClick /\ Spawned(workers) = 1)
    \/ (ConfigClick /\ ~mw.is_audio_running)
    \/ \E fft_size \in SUPPORTED_FFT_SIZES :
         DialogAcceptSizes(mw.current_sample_rate, fft_size)
    \/ QuestionOk
    \/ (StartClick /\ Spawned(workers) = 1)
    \/ WarningClose

FrameNext ==
    \/ FrameUser
    \/ Deliver
    \/ StopTimer
    \/ \E w \in WorkerIds : SteadyThread(w)

FrameSpec == Init /\ [][FrameNext]_vars

\* Capture runs from the start of the program (477) and the user changes the
\* sample rate or the transform size, on a device that delivers every block
\* in full, or fails
SizeEdits == {"sample_rate", "fft_size"}

LiveUser ==
    \/ ConfigClick
    \/ \E edit \in SizeEdits : DialogAccept(edit)
    \/ QuestionOk
    \/ WarningClose

LiveNext ==
    \/ LiveUser
    \/ Deliver
    \/ ApplyTimer
    \/ StartTimer
    \/ StopTimer
    \/ \E w \in WorkerIds : SteadyThread(w)

LiveSpec == Init /\ [][LiveNext]_vars

\* Lines 128-130 once backoffs stands at its bound: one more underrun of a
\* worker that is not asked to stop, which the counter no longer counts, so
\* that a worker can go round its loop for ever
RecordOn(w) ==
    /\ workers[w].pc = "record"
    /\ workers[w]._is_running
    /\ workers[w].backoffs = MaxBackoff
    /\ workers' = [workers EXCEPT ![w].pc = "while"]
    /\ UNCHANGED <<mw, mainq, timers, modal, stats>>
    /\ InExec

\* The capture thread of worker w on a device whose reads all return and give
\* no full block (a loopback device while nothing plays); the open may fail
IdleThread(w) ==
    \/ Run(w)
    \/ While(w)
    \/ Record(w, {"None", "short"})
    \/ RecordOn(w)
    \/ Except(w)
    \/ Finally(w)

\* Start and stop on such a device
IdleNext ==
    \/ StartClick
    \/ StopClick
    \/ WarningClose
    \/ HandleFinished
    \/ HandleError
    \/ StopTimer
    \/ \E w \in WorkerIds : IdleThread(w)

\* The event loop delivers the queued signals and fires the timers that are
\* due, and a capture thread that can take a step takes it. Nothing obliges
\* the user to act.
IdleFairness ==
    /\ WF_vars(HandleFinished)
    /\ WF_vars(HandleError)
    /\ WF_vars(StopTimer)
    /\ \A w \in WorkerIds : WF_vars(IdleThread(w))

FairIdleSpec == Init /\ [][IdleNext]_vars /\ IdleFairness

\* The user starts and stops capture, and opens the configuration dialog only
\* while the plot timer is stopped: after a stop request or after the end of
\* a worker
WindDownUser ==
    \/ StartClick
    \/ StopClick
    \/ WarningClose
    \/ (ConfigClick /\ ~timers.plot_active)
    \/ DialogCancel
    \/ \E edit \in ReconfigEdits : DialogAccept(edit)
    \/ QuestionOk
    \/ QuestionCancel

WindDownNext ==
    \/ WindDownUser
    \/ HandleFinished
    \/ HandleError
    \/ ApplyTimer
    \/ StartTimer
    \/ StopTimer
    \/ \E w \in WorkerIds : SilentThread(w)

WindDownSpec == Init /\ [][WindDownNext]_vars

\* The user starts and stops capture and submits requests that change the
\* sample rate or the transform size, one of them with the colormap, and
\* answers the question that follows
RestartEdits == {"sample_rate", "fft_size", "fft_size+colormap"}

DeclineUser ==
    \/ StartClick
    \/ StopClick
    \/ WarningClose
    \/ ConfigClick
    \/ \E edit \in RestartEdits : DialogAccept(edit)
    \/ QuestionOk
    \/ QuestionCancel

DeclineNext ==
    \/ DeclineUser
    \/ HandleFinished
    \/ HandleError
    \/ ApplyTimer
    \/ StartTimer
    \/ StopTimer
    \/ \E w \in WorkerIds : SilentThread(w)

DeclineSpec == Init /\ [][DeclineNext]_vars

---------------------------------------------------------------------------
\* Claims

\* C1 (as claimed): when the deferred finish_apply_settings of a restart
\* executes, and with it the reshape of the frequency vector, the window and
\* both history matrices, no worker is inside its read loop.
C1_ReshapeAfterJoin ==
    [][(ApplyTimer /\ Head(timers.apply).restart_needed)
         => \A w \in WorkerIds : ~InLoop(workers[w])]_vars

\* C2 (as claimed): the restart that a configuration change schedules for a
\* capture that was running resumes capture: when its start_audio runs, a new
\* worker is constructed, with the new sample rate, block size, transform
\* size and window, and the plot timer runs.
C2_RestartResumes ==
    [][StartTimer =>
         /\ Spawned(workers') = Spawned(workers) + 1
         /\ LET wk == workers'[mw'.audio_processor]
            IN /\ wk.sample_rate = mw'.current_sample_rate
               /\ wk.chunk_size = mw'.current_chunk_size
               /\ wk.n_fft = mw'.current_fft_size
               /\ wk.window = get_window(mw'.current_fft_size)
         /\ timers'.plot_active
         /\ mw'.is_audio_running]_vars

\* The newData signals still queued
QueuedData == {i \in 1..Len(mainq) : mainq[i].sig = "newData"}

\* C3 (as claimed): the slot holds the most recently delivered spectrum, and
\* a plot-timer tick that takes a spectrum from the slot leaves it empty.
C3_LatestWinsAndCleared ==
    /\ [](mw.latest_db_L # None
            => mw.latest_db_L.id = stats.published - Cardinality(QueuedData))
    /\ [][(Tick /\ mw.latest_db_L # None) => mw'.latest_db_L = None]_vars

\* C4 (as claimed): the history never holds more appended columns than
\* spectra were published.
C4_OneColumnPerFrame == stats.appended <= stats.published

\* What np.clip is to give: v, or the limit that v lies beyond
Clamped(v, lo, hi) == IF v < lo THEN lo ELSE IF v > hi THEN hi ELSE v

\* After a tick that ran update_plots k times on a spectrum of the length
\* the matrix has rows: the matrix h has become g
Advanced(h, g, k, v) ==
    /\ g.rows = h.rows
    /\ Len(g.cols) = Len(h.cols)
    /\ \A j \in 1..(Len(h.cols) - k) : g.cols[j] = h.cols[j + k]
    /\ \A j \in (Len(h.cols) - k + 1)..Len(h.cols) : g.cols[j] = v

\* C5: an advance of the history in Spectrogram mode leaves the shape of both
\* matrices as it was, moves every column one place towards index 0 for each
\* run of update_plots, and writes the spectrum, clamped to
\* [spec_db_min, spec_db_max], into the last column; no other column changes
\* and the columns stay in chronological order.
C5_AdvanceShiftsAndClamps ==
    [][(Tick /\ mw.latest_db_L # None /\ mw.display_mode = "Spectrogram"
             /\ mw.latest_db_L.n = mw.spec_history_L.rows)
         => LET lo == mw.current_spec_db_min
                hi == mw.current_spec_db_max
                k == timers.plot_connections
            IN /\ Advanced(mw.spec_history_L, mw'.spec_history_L, k,
                           Clamped(mw.latest_db_L.db, lo, hi))
               /\ Advanced(mw.spec_history_R, mw'.spec_history_R, k,
                           Clamped(mw.latest_db_R.db, lo, hi))]_vars

\* Two advances: a stereo block of -80 dB left and 20 dB right was clamped to
\* -70 and 10, and the in-range block before it stands one column to the left
C5_Witness ==
    LET n == mw.history_frames_actual
    IN /\ stats.appended = 2
       /\ timers.plot_connections = 1
       /\ mw.spec_history_L.cols[n] = -70
       /\ mw.spec_history_R.cols[n] = 10
       /\ mw.spec_history_L.cols[n - 1] = -20
       /\ mw.spec_history_R.cols[n - 1] = -20

\* C6 (as claimed): a run that has ended has emitted exactly one terminal
\* signal, the completion signal or the error signal, never both.
C6_ExactlyOneTerminal ==
    \A w \in WorkerIds : workers[w].pc = "done" => Len(workers[w].emitted) = 1

\* C6 (amended): a run that has ended has emitted finished exactly once, as
\* its last signal, and errorOccurred at most once, before it; a run that has
\* not ended has not emitted finished.
C6_FinishedAlwaysLast ==
    \A w \in WorkerIds :
      IF workers[w].pc = "done"
      THEN workers[w].emitted \in {<<"finished">>, <<"errorOccurred", "finished">>}
      ELSE workers[w].emitted \in {<<>>, <<"errorOccurred">>}

\* A run that ended by an error has emitted both signals
C6_Witness ==
    \E w \in WorkerIds :
      workers[w].pc = "done" /\ workers[w].emitted = <<"errorOccurred", "finished">>

\* C7: a read that gives no block or a short one, while the worker is not
\* asked to stop, makes one more backoff and goes back to the loop condition:
\* no spectrum is published, no signal is emitted or queued, the stream stays
\* open and the worker stays alive and unstopped.
C7_UnderrunBacksOff ==
    [][\A w \in WorkerIds :
         (Record(w, {"None", "short"}) /\ workers[w]._is_running)
           => /\ workers'[w].pc = "while"
              /\ workers'[w].backoffs = workers[w].backoffs + 1
              /\ workers'[w]._is_running
              /\ workers'[w].recorder
              /\ workers'[w].emitted = workers[w].emitted
              /\ mainq' = mainq
              /\ stats'.published = stats.published]_vars

\* Two underruns in a row made two backoffs; nothing was published or emitted
\* and the worker is still in its loop
C7_Witness ==
    \E w \in WorkerIds :
      /\ workers[w].backoffs = MaxBackoff
      /\ workers[w].pc = "while"
      /\ workers[w]._is_running
      /\ workers[w].emitted = <<>>
      /\ stats.published = 0
      /\ mainq = <<>>

\* Capture is stopped and can be started again
Stopped ==
    /\ ~mw.is_audio_running
    /\ mw.audio_processor = 0
    /\ ~timers.plot_active
    /\ \A w \in WorkerIds : ~Live(workers[w])

\* C8: a worker that has emitted errorOccurred has the error queued for the
\* main thread at once, and capture comes to the stopped state, with no live
\* worker, from which it can be started again; no handler of the error path
\* constructs a worker or schedules a start.
C8_FatalErrorStops ==
    /\ \A w \in WorkerIds :
         (workers[w].emitted = <<"errorOccurred">>) ~> Stopped
    /\ [][\A w \in WorkerIds :
            (Except(w) /\ workers[w]._is_running)
              => mainq' = Append(mainq, Signal("errorOccurred", w, NoData))]_vars
    /\ [][(HandleError \/ WarningClose \/ HandleFinished \/ StopTimer)
            => /\ Spawned(workers') = Spawned(workers)
               /\ timers'.start = timers.start]_vars

\* After an error all is handled: capture is stopped, the warning is closed,
\* and the Start button can start a new worker
C8_Witness ==
    /\ Stopped
    /\ mainq = <<>>
    /\ modal = <<>>
    /\ timers.stop = 0
    /\ Spawned(workers) < MaxSpawn
    /\ \E w \in WorkerIds : workers[w].emitted = <<"errorOccurred", "finished">>

\* C9 (as claimed): accepting a dialog in which only the colormap was changed
\* leaves the stored columns of both history matrices as they were.
C9_CosmeticKeepsHistory ==
    [][DialogAccept("colormap")
         => /\ mw'.spec_history_L = mw.spec_history_L
            /\ mw'.spec_history_R = mw.spec_history_R]_vars

\* C10: accepting a dialog that changes no sample rate and no transform size
\* applies the new values at once and leaves the worker, the running flag,
\* the plot timer and the pending timers as they were: nothing is stopped,
\* started or replaced, and no deferred step is pending.
C10_CosmeticAppliedLive ==
    [][\A edit \in CoreEdits :
         (/\ DialogAccept(edit)
          /\ LET new_settings == get_settings(Head(modal).current_settings, edit)
             IN /\ new_settings.sample_rate = mw.current_sample_rate
                /\ new_settings.fft_size = mw.current_fft_size
                /\ new_settings # Head(modal).current_settings)
           => /\ workers' = workers
              /\ timers' = timers
              /\ mainq' = mainq
              /\ mw'.audio_processor = mw.audio_processor
              /\ mw'.is_audio_running = mw.is_audio_running
              /\ modal' = Tail(modal)
              /\ Settings(mw') = get_settings(Head(modal).current_settings, edit)]_vars

\* The colormap was changed while the only worker ever constructed was in
\* its loop, and it still is
C10_Witness ==
    /\ stats.applied_running
    /\ mw.current_colormap = "magma"
    /\ mw.current_fft_size = DEFAULT_N_FFT
    /\ Spawned(workers) = 1
    /\ mw.audio_processor = 1
    /\ InLoop(workers[1])
    /\ workers[1]._is_running
    /\ mw.is_audio_running
    /\ timers.plot_active
    /\ modal = <<>>

\* C11: accepting the dialog with values identical to those in force, in any
\* state (capture running or stopped, a restart underway or not, the dialog
\* opened before or after the values came into force), changes nothing but
\* the dialog itself: no worker is stopped or constructed, no timer is
\* scheduled, and no attribute of the window changes (configuration, derived
\* vectors and history matrices included).
C11_IdenticalRequestIsNoOp ==
    [][\A edit \in ReconfigEdits :
         (/\ DialogAccept(edit)
          /\ get_settings(Head(modal).current_settings, edit) = Settings(mw))
           => /\ mw' = mw
              /\ workers' = workers
              /\ timers' = timers
              /\ mainq' = mainq
              /\ modal' = Tail(modal)]_vars

\* An identical request was accepted while the worker started before it was
\* still running
C11_Witness ==
    /\ stats.resubmitted
    /\ modal = <<>>
    /\ Spawned(workers) = 1
    /\ InLoop(workers[1])
    /\ workers[1]._is_running
    /\ mw.is_audio_running

\* C12: confirming a change of sample rate or transform size while capture is
\* not running applies it in the same handler, with no stop and no deferred
\* step: the new values are in force, the frequency vector, the window and
\* both history matrices are recomputed for them, no timer is scheduled, no
\* worker is constructed or touched and capture stays stopped. Once the
\* event loop runs, a worker is constructed only by the Start button or by
\* the restart timer.
C12_StoppedChangeAppliedDirectly ==
    /\ [][(QuestionOk /\ ~mw.is_audio_running)
            => LET new_settings == Head(modal).new_settings
                   bins == new_settings.fft_size \div 2 + 1
                   frames == CeilDiv(HISTORY_SECONDS * new_settings.sample_rate,
                                     mw'.current_chunk_size)
               IN /\ Settings(mw') = new_settings
                  /\ mw'.n_fft = new_settings.fft_size
                  /\ mw'.freq_vector = rfftfreq(new_settings.fft_size, new_settings.sample_rate)
                  /\ mw'.window = get_window(mw'.current_chunk_size)
                  /\ mw'.spec_history_L = np_full(bins, frames, new_settings.spec_db_min)
                  /\ mw'.spec_history_R = np_full(bins, frames, new_settings.spec_db_min)
                  /\ ~mw'.is_audio_running
                  /\ mw'.audio_processor = mw.audio_processor
                  /\ workers' = workers
                  /\ timers' = timers
                  /\ mainq' = mainq
                  /\ modal' = Tail(modal)]_vars
    /\ [][Spawned(workers') # Spawned(workers) => StartClick \/ StartTimer]_vars

\* The transform size was changed to 4096 after the first worker had ended
\* and capture was flagged stopped: nothing is pending and no second worker
\* exists
C12_Witness ==
    /\ mw.current_fft_size = 4096
    /\ mw.freq_vector.len = 2049
    /\ Spawned(workers) = 1
    /\ workers[1].pc = "done"
    /\ ~mw.is_audio_running
    /\ timers.apply = <<>>
    /\ timers.start = 0
    /\ modal = <<>>

\* A restart that a configuration request began is underway: its deferred
\* finish_apply_settings or its deferred start_audio is still to run
RestartUnderway == timers.apply # <<>> \/ timers.start > 0

\* C13 (as claimed): a configuration request submitted while a restart is
\* underway is rejected: accepting the dialog, or confirming its question,
\* changes no attribute of the window, no worker and no timer (it is neither
\* applied nor queued).
C13_RejectedWhileUnderway ==
    [][(/\ RestartUnderway
        /\ \/ \E edit \in ReconfigEdits : DialogAccept(edit)
           \/ QuestionOk)
         => /\ mw' = mw
            /\ workers' = workers
            /\ timers' = timers]_vars

\* C14 (as claimed): accepting the dialog with spec_db_min >= spec_db_max is
\* rejected before any mutation: no attribute of the window (configuration,
\* derived vectors, history matrices) changes, and no worker and no timer is
\* touched.
C14_InvalidRangeRejected ==
    [][\A edit \in RangeEdits :
         (/\ DialogAccept(edit)
          /\ LET new_settings == get_settings(Head(modal).current_settings, edit)
             IN new_settings.spec_db_min >= new_settings.spec_db_max)
           => /\ mw' = mw
              /\ workers' = workers
              /\ timers' = timers]_vars

\* The default speaker has two channels and its trial capture gave frames
DefaultUsable ==
    LET d == startup.sound.default_speaker
    IN d # NoDevice /\ d.channels >= 2 /\ d.trials[1] = "frames"

\* The places, among the candidates c, of those that passed their trial
\* capture and have the channels asked for
PassedStereo(c) == {i \in 1..Len(c) : c[i].channels >= 2 /\ c[i].trials[1] = "frames"}
PassedMono(c) == {i \in 1..Len(c) : c[i].channels < 2 /\ c[i].trials[1] = "frames"}

First(places) == CHOOSE i \in places : \A j \in places : i <= j

\* C15 (as claimed): when the default speaker is not accepted, the device
\* selected is the first candidate of two or more channels that passed its
\* trial, wherever it stands; a mono candidate is selected, with the warning,
\* only when no candidate of two or more channels passed.
C15_StereoPreferred ==
    (startup.pc # "find" /\ ~DefaultUsable)
      => LET c == Candidates(startup.sound.microphones)
         IN IF PassedStereo(c) # {}
            THEN /\ startup.found.selected_device = c[First(PassedStereo(c))]
                 /\ ~startup.found.warned
            ELSE PassedMono(c) # {}
                   => /\ startup.found.selected_device = c[First(PassedMono(c))]
                      /\ startup.found.warned

\* The trial by which find_loopback_device can have accepted device d gave
\* frames
PassedTrial(d) ==
    IF d.channels >= 2 THEN \E call \in 1..2 : d.trials[call] = "frames"
    ELSE d.channels >= 1 /\ d.trials[1] = "frames"

\* No candidate gives frames at any trial
AllCandidatesFail ==
    LET c == Candidates(startup.sound.microphones)
    IN \A i \in 1..Len(c) : \A call \in 1..2 : c[i].trials[call] # "frames"

\* C16: find_loopback_device returns a device only if a trial capture on
\* that device gave frames, and the window is built on no other device;
\* when the default speaker is not usable and every candidate fails (or
\* there is none), the program ends in show_qt_error with the guidance, and
\* no device is selected or returned.
C16_OnlyTrialledDevice ==
    /\ startup.pc \in {"found", "window", "exec"}
         => /\ startup.found.found
            /\ startup.found.selected_device # NoDevice
            /\ PassedTrial(startup.found.selected_device)
            /\ \/ startup.found.selected_device = startup.sound.default_speaker
               \/ \E i \in 1..Len(startup.sound.microphones) :
                    startup.found.selected_device = startup.sound.microphones[i]
    /\ (startup.pc # "find" /\ ~DefaultUsable /\ AllCandidatesFail)
         => startup.pc = "exit"
    /\ startup.pc = "exit"
         => /\ ~startup.found.found
            /\ startup.found.selected_device = NoDevice
            /\ mw = NoWindow

\* The scenario of the specification: a default speaker of one channel, two
\* loopback candidates that both fail, and the program has ended
C16_Witness ==
    /\ startup.pc = "exit"
    /\ startup.sound.default_speaker.channels = 1
    /\ Len(Candidates(startup.sound.microphones)) = 2
    /\ AllCandidatesFail

\* n is the least whole number that is not less than a / b
IsCeiling(n, a, b) == (n - 1) * b < a /\ a <= n * b

\* C17: after any sequence of reconfigurations, both history matrices have
\* ceil(HISTORY_SECONDS * sample_rate / chunk_size) columns for the sample
\* rate and chunk size in force, and so do history_frames_actual and the time
\* vector, for every supported sample rate and transform size.
C17_HistoryFrames ==
    LET a == HISTORY_SECONDS * mw.current_sample_rate
        b == mw.current_chunk_size
    IN /\ IsCeiling(Len(mw.spec_history_L.cols), a, b)
       /\ IsCeiling(Len(mw.spec_history_R.cols), a, b)
       /\ IsCeiling(mw.history_frames_actual, a, b)
       /\ IsCeiling(mw.time_vector.len, a, b)

\* After two reconfigurations: 8000 Hz and blocks of 16384 frames give
\* 80000 / 16384 = 4.88..., so 5 columns
C17_Witness ==
    /\ stats.configs = 2
    /\ modal = <<>>
    /\ mw.current_sample_rate = 8000
    /\ mw.current_chunk_size = 16384
    /\ Len(mw.spec_history_L.cols) = 5
    /\ Len(mw.spec_history_R.cols) = 5

\* A spectrum of the length that a transform of size T gives: T/2 + 1
HasBinsOf(spectrum, T) == 2 * (spectrum.n - 1) = T

\* C18: every worker is constructed with a supported transform size T, and
\* every spectrum pair it computes or has published (queued as newData) has
\* a left and a right spectrum of T/2 + 1 values each.
C18_FrameLength ==
    /\ \A w \in WorkerIds :
         workers[w].pc # "unborn"
           => /\ workers[w].n_fft \in SUPPORTED_FFT_SIZES
              /\ workers[w].pc = "emit"
                   => /\ HasBinsOf(workers[w].processed_data.db_L, workers[w].n_fft)
                      /\ HasBinsOf(workers[w].processed_data.db_R, workers[w].n_fft)
    /\ \A i \in 1..Len(mainq) :
         mainq[i].sig = "newData"
           => /\ HasBinsOf(mainq[i].db_L, workers[mainq[i].w].n_fft)
              /\ HasBinsOf(mainq[i].db_R, workers[mainq[i].w].n_fft)

\* A worker constructed with the largest transform size, 16384, has
\* published a pair of spectra of 8193 values
C18_Witness ==
    \E i \in 1..Len(mainq) :
      /\ mainq[i].sig = "newData"
      /\ workers[mainq[i].w].n_fft = 16384
      /\ mainq[i].db_L.n = 8193
      /\ mainq[i].db_R.n = 8193

\* C19 (as claimed): whenever the plot timer runs with update_plots
\* connected in spectrogram mode and a pair of spectra waits for its next
\* tick, so that the tick writes the pair into the history, the length of
\* both spectra equals the current bin count: the row count of both history
\* matrices and the length of the frequency vector.
C19_FrameMatchesBuffer ==
    (/\ timers.plot_active
     /\ timers.plot_connections > 0
     /\ mw.display_mode = "Spectrogram"
     /\ mw.latest_db_L # None
     /\ mw.latest_db_R # None)
      => /\ mw.latest_db_L.n = mw.spec_history_L.rows
         /\ mw.latest_db_R.n = mw.spec_history_R.rows
         /\ mw.latest_db_L.n = mw.freq_vector.len

\* The derived state that belongs to transform size T: block size T, a
\* window of T coefficients, T/2 + 1 frequencies, T/2 + 1 rows in both
\* history matrices
DerivedFor(T) ==
    /\ mw.n_fft = T
    /\ mw.current_chunk_size = T
    /\ mw.window.len = T
    /\ 2 * (mw.freq_vector.len - 1) = T
    /\ 2 * (mw.spec_history_L.rows - 1) = T
    /\ 2 * (mw.spec_history_R.rows - 1) = T

\* C20: between event handlers the derived state is consistent with the
\* configuration: block_size == transform_size (a supported size), the window
\* has block_size coefficients, the frequency vector has
\* transform_size/2 + 1 values and both history matrices have
\* transform_size/2 + 1 rows; with transform_size 4096 these are 4096, 2049
\* and 2049.
C20_DerivedStateConsistent ==
    /\ mw.current_fft_size \in SUPPORTED_FFT_SIZES
    /\ DerivedFor(mw.current_fft_size)
    /\ mw.current_fft_size = 4096
         => /\ mw.current_chunk_size = 4096
            /\ mw.window.len = 4096
            /\ mw.freq_vector.len = 2049
            /\ mw.spec_history_L.rows = 2049
            /\ mw.spec_history_R.rows = 2049

\* A capture that ran with 2048 was reconfigured to transform size 4096: the
\* block and the window have 4096 values, the frequency vector and the
\* histories 2049
C20_Witness ==
    /\ Spawned(workers) >= 1
    /\ \E w \in WorkerIds : workers[w].pc # "unborn" /\ workers[w].n_fft = 2048
    /\ stats.configs >= 1
    /\ mw.current_fft_size = 4096
    /\ mw.current_chunk_size = 4096
    /\ mw.window.len = 4096
    /\ mw.freq_vector.len = 2049
    /\ mw.spec_history_L.rows = 2049

\* A worker inside its loop whose flag was lowered by stop()
StopObserved(wk) == InLoop(wk) /\ ~wk._is_running

\* The newData signals of worker w that are queued
QueuedFrom(q, w) == {i \in 1..Len(q) : q[i].sig = "newData" /\ q[i].w = w}

\* C21: once stop() has lowered the flag of a worker inside its loop, the
\* worker starts no read beyond the one that may be in flight, publishes no
\* frame any more (the read in flight or the block in work is dropped), and,
\* its read having returned, leaves the loop, closes the stream and emits
\* finished.
C21_StopIsCooperative ==
    /\ [][\A w \in WorkerIds :
            StopObserved(workers[w])
              => /\ workers[w].pc # "record" => workers'[w].pc # "record"
                 /\ workers[w].pc # "emit" => workers'[w].pc # "emit"
                 /\ Cardinality(QueuedFrom(mainq', w)) <= Cardinality(QueuedFrom(mainq, w))
                 /\ stats'.published = stats.published
                 /\ ~workers'[w]._is_running]_vars
    /\ \A w \in WorkerIds :
         StopObserved(workers[w])
           ~> (/\ workers[w].pc = "done"
               /\ ~workers[w].recorder
               /\ workers[w].emitted = <<"finished">>)

\* stop() came while a read of a running worker was in flight
C21_Witness ==
    \E w \in WorkerIds :
      /\ workers[w].pc = "record"
      /\ workers[w].recorder
      /\ ~workers[w]._is_running
      /\ stats.published >= 1

\* The finished signal of worker w is queued for the main thread
FinishedQueued(w) ==
    \E i \in 1..Len(mainq) : mainq[i].sig = "finished" /\ mainq[i].w = w

\* C22: on every way out of run() the stream is closed before finished is
\* emitted: a worker that is past its with block (in its except or finally
\* clause, or done), and so every worker whose finished signal is queued or
\* was emitted, has no open stream.
C22_ReleasedBeforeFinished ==
    \A w \in WorkerIds :
      /\ workers[w].pc \in {"except", "finally", "done"} => ~workers[w].recorder
      /\ FinishedQueued(w) => ~workers[w].recorder
      /\ (\E k \in 1..Len(workers[w].emitted) : workers[w].emitted[k] = "finished")
           => ~workers[w].recorder
      /\ workers[w].recorder => InLoop(workers[w])

\* A worker that published a frame from its open stream was stopped: its
\* finished signal is queued behind the frame and the stream is closed
C22_Witness ==
    \E w \in WorkerIds :
      /\ FinishedQueued(w)
      /\ QueuedFrom(mainq, w) # {}
      /\ workers[w].emitted = <<"finished">>
      /\ ~workers[w].recorder

\* C23: a worker keeps the sample rate, block size, transform size and
\* window it was constructed with (those in force in the main window when
\* start_audio constructed it) for as long as it exists, whatever is applied
\* to the main window meanwhile, and every frame it computes or has published
\* has the length of its own transform size.
C23_WorkerKeepsItsValues ==
    /\ [][\A w \in WorkerIds :
            IF workers[w].pc = "unborn"
            THEN workers'[w].pc # "unborn"
                   => /\ workers'[w].sample_rate = mw.current_sample_rate
                      /\ workers'[w].chunk_size = mw.current_chunk_size
                      /\ workers'[w].n_fft = mw.n_fft
                      /\ workers'[w].window.len = mw.current_chunk_size
            ELSE /\ workers'[w].sample_rate = workers[w].sample_rate
                 /\ workers'[w].chunk_size = workers[w].chunk_size
                 /\ workers'[w].n_fft = workers[w].n_fft
                 /\ workers'[w].window = workers[w].window]_vars
    /\ [](\A w \in WorkerIds :
            /\ workers[w].pc = "emit"
                 => 2 * (workers[w].processed_data.db_L.n - 1) = workers[w].n_fft
            /\ \A i \in QueuedFrom(mainq, w) :
                 /\ 2 * (mainq[i].db_L.n - 1) = workers[w].n_fft
                 /\ 2 * (mainq[i].db_R.n - 1) = workers[w].n_fft)

\* A worker constructed with 2048 is in its loop while transform size 4096
\* is in force in the main window, and a frame of 1025 values is queued
C23_Witness ==
    \E w \in WorkerIds :
      /\ InLoop(workers[w])
      /\ workers[w]._is_running
      /\ workers[w].n_fft = 2048
      /\ workers[w].window.len = 2048
      /\ mw.n_fft = 4096
      /\ mw.window.len = 4096
      /\ \E i \in QueuedFrom(mainq, w) : mainq[i].db_L.n = 1025

\* C24 (as claimed): a candidate whose trial capture raised an exception
\* counts as failed, so it is not the device selected, and the enumeration
\* goes on to the candidates after it: when the default speaker is not
\* accepted and some candidate gives frames at its trial, a device is found.
C24_TrialExceptionSkips ==
    (startup.pc # "find" /\ ~DefaultUsable)
      => LET c == Candidates(startup.sound.microphones)
         IN /\ \A i \in 1..Len(c) :
                 c[i].trials[1] \in {"raise", "attr"}
                   => startup.found.selected_device # c[i]
            /\ (\E i \in 1..Len(c) : c[i].channels >= 1 /\ c[i].trials[1] = "frames")
                 => startup.found.found

\* stop_audio has signalled the worker and its completion is not handled
\* yet: capture is flagged running and the plot timer, which start_audio
\* starts with the flag, is stopped
StopRequested ==
    /\ mw.is_audio_running
    /\ mw.audio_processor # 0
    /\ ~timers.plot_active

\* C25 (as claimed): a stop requested at any point after start_audio has
\* constructed the worker, also before its run() has begun, is followed by
\* the end of the worker and the handling of its finished signal: capture
\* ends flagged as not running, with no live worker.
C25_StopNeverLost ==
    StopRequested ~> (~mw.is_audio_running /\ \A w \in WorkerIds : ~Live(workers[w]))

\* A worker that was constructed and whose finished signal has not been
\* handled: it has not emitted it, or the signal is still queued
Alive(w) ==
    /\ workers[w].pc # "unborn"
    /\ workers[w].pc # "done" \/ FinishedQueued(w)

\* C26: at most one worker is alive at any time, and capture is flagged
\* running exactly while one is, the one the main window refers to; a
\* start_audio that runs while capture is flagged running constructs no
\* worker and changes nothing of the window, the workers and the plot timer;
\* the running flag is cleared only by the handling of the finished signal of
\* the current worker.
C26_AtMostOneWorker ==
    /\ [](Cardinality({w \in WorkerIds : Alive(w)}) <= 1)
    /\ [](\A w \in WorkerIds : Alive(w) <=> (mw.is_audio_running /\ mw.audio_processor = w))
    /\ [][(StartTimer /\ mw.is_audio_running)
            => /\ mw' = mw
               /\ workers' = workers
               /\ timers' = [timers EXCEPT !.start = @ - 1]]_vars
    /\ [][(mw.is_audio_running /\ ~mw'.is_audio_running)
            => /\ mainq # <<>>
               /\ Head(mainq) = Signal("finished", mw.audio_processor, NoData)
               /\ mainq' = Tail(mainq)]_vars

\* The deferred start_audio of a restart found capture running, on a second
\* worker that the user had started meanwhile, and the first worker is done
C26_Witness ==
    /\ Spawned(workers) = 2
    /\ workers[1].pc = "done" /\ ~FinishedQueued(1)
    /\ Alive(2)
    /\ mw.is_audio_running
    /\ stats.configs >= 1
    /\ timers.apply = <<>>
    /\ timers.start = 0
    /\ mw.current_fft_size = 4096
    /\ workers[2].n_fft = 2048

\* C27 (as claimed): a tick of the plot timer runs update_plots once, however
\* often capture was started before: the history advances by at most one
\* column per tick.
C27_OneUpdatePerTick ==
    [][Tick => stats'.appended <= stats.appended + 1]_vars

\* C28 (as claimed): when every configuration request is submitted after a
\* stop request or after the end of a worker, a request never starts capture:
\* every worker is constructed by an explicit start of the user.
C28_StaysStopped ==
    [][Spawned(workers') > Spawned(workers) => StartClick]_vars

\* The "Restart Audio?" question is being asked
Asking == modal # <<>> /\ Head(modal).kind = "question"

\* C29: a request that changes the sample rate or the transform size applies
\* nothing before the question is answered, and nothing when the answer is
\* Cancel: every attribute of the window (the configuration, the cosmetic
\* fields changed with it, the derived vectors, the histories), every worker
\* and every timer is as before the request.
C29_DeclinedAppliesNothing ==
    /\ [][(modal # <<>> /\ Head(modal).kind = "config" /\ Asking')
            => /\ Head(modal').new_settings.sample_rate # mw.current_sample_rate
                    \/ Head(modal').new_settings.fft_size # mw.current_fft_size
               /\ mw' = mw /\ workers' = workers /\ timers' = timers /\ mainq' = mainq]_vars
    /\ [][QuestionCancel
            => /\ mw' = mw /\ workers' = workers /\ timers' = timers /\ mainq' = mainq
               /\ modal' = Tail(modal)]_vars

\* The one request of a running capture, which asked for another sample rate
\* or transform size, was declined: the dialog is closed, nothing is pending,
\* and size, rate, colormap and histories are those of the start
C29_Witness ==
    /\ stats.configs = 1
    /\ modal = <<>>
    /\ timers.apply = <<>> /\ timers.start = 0
    /\ mw.is_audio_running /\ timers.plot_active
    /\ Spawned(workers) = 1
    /\ mw.current_fft_size = DEFAULT_N_FFT
    /\ mw.current_sample_rate = DEFAULT_SAMPLE_RATE
    /\ mw.current_colormap = DEFAULT_COLORMAP
    /\ mw.spec_history_L.rows = 1025
    /\ ~stats.applied_running

\* C30 (as claimed): every cell of both history matrices lies within
\* [current_spec_db_min, current_spec_db_max], whatever the dialog submitted.
C30_HistoryWithinRange ==
    /\ \A j \in 1..Len(mw.spec_history_L.cols) :
         /\ mw.current_spec_db_min <= mw.spec_history_L.cols[j]
         /\ mw.spec_history_L.cols[j] <= mw.current_spec_db_max
    /\ \A j \in 1..Len(mw.spec_history_R.cols) :
         /\ mw.current_spec_db_min <= mw.spec_history_R.cols[j]
         /\ mw.spec_history_R.cols[j] <= mw.current_spec_db_max

====
